---- MODULE Spec2Model ----
(***************************************************************************)
(* A model of the test-gating helpers of psycopg2cffi                      *)
(* (psycopg2cffi/tests/psycopg2_tests/testutils.py): the CockroachDB       *)
(* version probe crdb_version, the version matcher _crdb_match_version,    *)
(* the skip_* decorators and decorate_all_tests.                           *)
(*                                                                         *)
(* Python strings are tuples of one-character strings, so that the regular *)
(* expressions and the int()/%d conversions are computed character by      *)
(* character.  An optional value is a tuple of length 0 (None) or 1.       *)
(***************************************************************************)
EXTENDS Integers, Sequences, FiniteSets, TLC

VARIABLES
    crdbDefault,    \* the object bound to crdb_version's default argument
    queries,        \* per handle: number of parameter_status("crdb_version") calls
    calls,          \* the crdb_version calls completed so far, oldest first
    threads,        \* per thread: where it is in its crdb_version call
    inp,            \* the arguments of the pure function under study
    out,            \* its result, None until it has been applied
    attrs,          \* suite attribute -> its wrappers, outermost first
    decoArgs,       \* the decorators of the last decorate_all_tests call
    decoRet,        \* what the last decoration call returned
    decoVia,        \* how that call was made
    decoErr,        \* the exception a decoration call raised, "" when none
    pc,             \* where the test process is
    cur,            \* the test method being run
    depth,          \* the wrapper of cur that is evaluated next
    events,         \* what happened in the run of cur, oldest first
    ret,            \* how the call of cur ended
    env,            \* what has been observed of the backend and the runtime
    conns,          \* the connections of the test; registered: in self._conns
    theConn         \* self._the_conn: an index of conns, 0 when not set

probeVars == <<crdbDefault, queries, calls, threads>>
pureVars == <<inp, out>>
suiteVars == <<attrs, decoArgs, decoRet, decoVia, decoErr>>
runVars == <<cur, depth, events, ret, env, conns, theConn>>
vars == <<crdbDefault, queries, calls, threads, inp, out, attrs, decoArgs, decoRet,
          decoVia, decoErr, pc, cur, depth, events, ret, env, conns, theConn>>

----------------------------------------------------------------------------
(* Python values *)

None == << >>
Some(v) == <<v>>

PyNone == [isNone |-> TRUE, items |-> << >>]
PyList(items) == [isNone |-> FALSE, items |-> items]
\* bool(x) of None or of a list
Truthy(x) == ~x.isNone /\ x.items # << >>

Digits == {"0", "1", "2", "3", "4", "5", "6", "7", "8", "9"}
Letters == {"a", "b", "c", "d", "e", "f", "g", "h", "i", "j", "k", "l", "m",
            "n", "o", "p", "q", "r", "s", "t", "u", "v", "w", "x", "y", "z",
            "A", "B", "C", "D", "E", "F", "G", "H", "I", "J", "K", "L", "M",
            "N", "O", "P", "Q", "R", "S", "T", "U", "V", "W", "X", "Y", "Z"}
Whitespace == {" ", "\t", "\n", "\r"}
\* the regular expression classes \d, \w and \s
IsDigit(c) == c \in Digits
IsWord(c) == c \in Digits \cup Letters \cup {"_"}
IsSpace(c) == c \in Whitespace

DigitVal(c) ==
    CASE c = "0" -> 0 [] c = "1" -> 1 [] c = "2" -> 2 [] c = "3" -> 3
      [] c = "4" -> 4 [] c = "5" -> 5 [] c = "6" -> 6 [] c = "7" -> 7
      [] c = "8" -> 8 [] c = "9" -> 9
DigitChar(d) ==
    CASE d = 0 -> "0" [] d = 1 -> "1" [] d = 2 -> "2" [] d = 3 -> "3"
      [] d = 4 -> "4" [] d = 5 -> "5" [] d = 6 -> "6" [] d = 7 -> "7"
      [] d = 8 -> "8" [] d = 9 -> "9"

\* int(s) of a string of decimal digits
RECURSIVE ToInt(_)
ToInt(s) ==
    IF s = << >> THEN 0
    ELSE ToInt(SubSeq(s, 1, Len(s) - 1)) * 10 + DigitVal(s[Len(s)])

\* "%d" % n, n >= 0
RECURSIVE IntToStr(_)
IntToStr(n) ==
    IF n < 10 THEN <<DigitChar(n)>>
    ELSE IntToStr(n \div 10) \o <<DigitChar(n % 10)>>

\* the index after the longest run of characters of class Cls(_) that starts
\* at s[i]: what a greedy \d+ or \s* consumes
RECURSIVE RunEnd(_, _, _)
RunEnd(s, i, cls) ==
    IF i <= Len(s) /\ s[i] \in cls THEN RunEnd(s, i + 1, cls) ELSE i

StartsWithAt(s, i, p) ==
    /\ i + Len(p) - 1 <= Len(s)
    /\ \A k \in 1..Len(p) : s[i + k - 1] = p[k]

----------------------------------------------------------------------------
(* Backend handles: what conn.info.parameter_status("crdb_version") gives *)

Handles == {"pg", "noinfo", "crdb20", "crdb19", "crdbrev", "crdbdev"}

\* a connection class without the .info attribute raises AttributeError
HasInfo(conn) == conn # "noinfo"

StatusString(conn) ==
    CASE conn = "crdb20" ->
            Some(<<"C", "C", "L", " ", "v", "2", "0", ".", "1", ".", "3",
                   " ", "(", "x", "8", "6", ")">>)
      [] conn = "crdb19" ->
            Some(<<"v", "1", "9", ".", "2", ".", "1", "1">>)
      [] conn = "crdbrev" ->
            Some(<<"r", "e", "v", "2", "0", ".", "1", ".", "3">>)
      [] conn = "crdbdev" ->
            Some(<<"v", "2", "0", ".", "1", "-", "d", "e", "v">>)
      [] OTHER -> None

----------------------------------------------------------------------------
(* re.search(r"\bv(\d+)\.(\d+)\.(\d+)", sver) *)

\* \b before s[i], where s[i] is a word character
WordBoundaryBefore(s, i) == i = 1 \/ ~IsWord(s[i - 1])

\* the last group, from s[c] to s[d - 1], must not be empty
BannerPatch(s, a, b, c, d) ==
    IF ~(d > c) THEN None
    ELSE Some(<<SubSeq(s, a, b - 1), SubSeq(s, b + 1, c - 2),
                SubSeq(s, c, d - 1)>>)

\* the middle group, from s[b + 1] to s[c - 1], and the dot after it
BannerMinor(s, a, b, c) ==
    IF ~(c > b + 1 /\ c <= Len(s) /\ s[c] = ".") THEN None
    ELSE BannerPatch(s, a, b, c + 1, RunEnd(s, c + 1, Digits))

\* the first group, from s[a] to s[b - 1], and the dot after it
BannerMajor(s, a, b) ==
    IF ~(b > a /\ b <= Len(s) /\ s[b] = ".") THEN None
    ELSE BannerMinor(s, a, b, RunEnd(s, b + 1, Digits))

\* the groups of a match that starts at s[i], or None
BannerMatchAt(s, i) ==
    IF ~(s[i] = "v" /\ WordBoundaryBefore(s, i)) THEN None
    ELSE BannerMajor(s, i + 1, RunEnd(s, i + 1, Digits))

Least(S) == CHOOSE i \in S : \A j \in S : i <= j

FirstBanner(s, hits) ==
    IF hits = {} THEN None ELSE BannerMatchAt(s, Least(hits))

\* the leftmost match, or None
BannerSearch(s) ==
    FirstBanner(s, {i \in 1..Len(s) : BannerMatchAt(s, i) # None})

----------------------------------------------------------------------------
(* The version encoding: v20.1.3 is 200103 *)

MajorWeight == 10000
MinorWeight == 100

\* the encoding with the minor component weighted 10
encode_minor10(major, minor, patch) == major * MajorWeight + minor * 10 + patch

encode(major, minor, patch) == major * MajorWeight + minor * MinorWeight + patch

----------------------------------------------------------------------------
(* crdb_version(conn, __crdb_version=None) *)

\* the default value of the parameter __crdb_version
crdb_version_default == PyNone

\* What a call gives.  ret: the value returned (an optional integer inside
\* Some), or None when the call raised; err: the exception raised, "" when
\* none; queried: whether parameter_status was called; default: the object
\* passed as __crdb_version as it is after the call
Probed(value, err, queried, arg) ==
    [ret |-> value, err |-> err, queried |-> queried, default |-> arg]

\* a probe that takes a status without banner for an absent status
crdb_version_parse_lenient(m, arg) ==
    IF m = None THEN Probed(Some(None), "", TRUE, arg)
    ELSE Probed(Some(Some(encode(ToInt(m[1][1]), ToInt(m[1][2]),
                                 ToInt(m[1][3])))),
                "", TRUE, arg)

\* lines 367-375: m is the result of re.search
crdb_version_parse(m, arg) ==
    IF m = None THEN Probed(None, "ValueError:banner", TRUE, arg)
    ELSE Probed(Some(Some(encode(ToInt(m[1][1]), ToInt(m[1][2]),
                                 ToInt(m[1][3])))),
                "", TRUE, arg)

\* lines 364-375: the local list is empty, sver is the status or None
crdb_version_resolve(conn, sver, arg) ==
    IF sver = None THEN Probed(Some(None), "", HasInfo(conn), arg)
    ELSE crdb_version_parse(BannerSearch(sver[1]), arg)

\* lines 354-362: lst is the list __crdb_version is bound to by line 352
crdb_version_body(conn, lst, arg) ==
    IF lst # << >> THEN Probed(Some(lst[1]), "", FALSE, arg)
    ELSE crdb_version_resolve(
             conn, IF HasInfo(conn) THEN StatusString(conn) ELSE None, arg)

crdb_version(conn, arg) ==
    crdb_version_body(conn, IF Truthy(arg) THEN arg.items ELSE << >>, arg)

----------------------------------------------------------------------------
(* _crdb_match_version(version, pattern) *)

\* the alternatives of the operator group, in the order the pattern lists them
OpAlternatives ==
    << <<">">>, <<">", "=">>, <<"<">>, <<"<", "=">>, <<"=", "=">>, <<"!", "=">> >>

\* an optional group (?:\.(\d+))? at s[b]: whether it is there, and the
\* index after it
HasGroup(s, b) ==
    /\ b <= Len(s)
    /\ s[b] = "."
    /\ RunEnd(s, b + 1, Digits) > b + 1
GroupEnd(s, b) == IF HasGroup(s, b) THEN RunEnd(s, b + 1, Digits) ELSE b
Group(s, b) ==
    IF HasGroup(s, b) THEN Some(SubSeq(s, b + 1, GroupEnd(s, b) - 1)) ELSE None

\* $ matches at the end of the string and before a final newline
AtEnd(s, d) == d = Len(s) + 1 \/ (d = Len(s) /\ s[d] = "\n")

\* the groups, the major from s[a] to s[b - 1], the minor group at s[b] and
\* the patch group at s[c]
PatternGroups(s, a, b, c) ==
    IF ~AtEnd(s, GroupEnd(s, c)) THEN None
    ELSE Some([major |-> SubSeq(s, a, b - 1), minor |-> Group(s, b),
               patch |-> Group(s, c)])

PatternDigits(s, a, b) ==
    IF b = a THEN None ELSE PatternGroups(s, a, b, GroupEnd(s, b))

PatternNumber(s, a) == PatternDigits(s, a, RunEnd(s, a, Digits))

\* \s*(\d+)(?:\.(\d+))?(?:\.(\d+))?$ matched from s[i] on: the three groups
\* (an absent optional group is None), or None when there is no match
PatternRest(s, i) == PatternNumber(s, RunEnd(s, i, Whitespace))

\* the alternatives of the operator group after which the rest matches
Matching(s) ==
    {k \in 1..Len(OpAlternatives) :
        /\ StartsWithAt(s, 1, OpAlternatives[k])
        /\ PatternRest(s, Len(OpAlternatives[k]) + 1) # None}

\* the match with the k-th alternative
MatchWith(s, k) ==
    Some([op |-> OpAlternatives[k],
          groups |-> PatternRest(s, Len(OpAlternatives[k]) + 1)[1]])

FirstMatching(s, ok) == IF ok = {} THEN None ELSE MatchWith(s, Least(ok))

\* re.match(r'^(>|>=|<|<=|==|!=)\s*(\d+)(?:\.(\d+))?(?:\.(\d+))?$', pattern):
\* the first alternative after which the rest of the pattern matches
PatternMatch(s) == FirstMatching(s, Matching(s))

\* the table with '>=' bound to gt
ops_ge_as_gt(sym) ==
    CASE sym = <<">">> -> "gt"
      [] sym = <<">", "=">> -> "gt"
      [] sym = <<"<">> -> "lt"
      [] sym = <<"<", "=">> -> "le"
      [] sym = <<"=", "=">> -> "eq"
      [] sym = <<"!", "=">> -> "ne"

\* the table ops of _crdb_match_version
ops(sym) ==
    CASE sym = <<">">> -> "gt"
      [] sym = <<">", "=">> -> "ge"
      [] sym = <<"<">> -> "lt"
      [] sym = <<"<", "=">> -> "le"
      [] sym = <<"=", "=">> -> "eq"
      [] sym = <<"!", "=">> -> "ne"

\* getattr(operator, name)(a, b)
operator(name, a, b) ==
    CASE name = "gt" -> a > b
      [] name = "ge" -> a >= b
      [] name = "lt" -> a < b
      [] name = "le" -> a <= b
      [] name = "eq" -> a = b
      [] name = "ne" -> a # b

\* int(g or 0) of an optional group
IntOrZero(g) == IF g = None THEN 0 ELSE ToInt(g[1])

\* lines 445-448: the comparison, m a match
compare_version(version, m) ==
    operator(ops(m.op), version,
             encode(ToInt(m.groups.major), IntOrZero(m.groups.minor),
                    IntOrZero(m.groups.patch)))

\* lines 440-448: m is the result of re.match
match_or_raise(version, m) ==
    IF m = None THEN [ret |-> None, err |-> "ValueError:pattern"]
    ELSE [ret |-> Some(compare_version(version, m[1])), err |-> ""]

\* ret: Some(boolean), or None when the call raised; err: the exception
_crdb_match_version(version, pattern) ==
    IF pattern = None THEN [ret |-> Some(TRUE), err |-> ""]
    ELSE match_or_raise(version, PatternMatch(pattern[1]))

----------------------------------------------------------------------------
(* Messages: a message is a tuple of pieces, each piece a tuple of strings; *)
(* a number is formatted into its decimal digits                           *)

Text(s) == <<s>>

\* ".".join(map(str, t))
RECURSIVE JoinDots(_)
JoinDots(t) ==
    IF t = << >> THEN << >>
    ELSE IF Len(t) = 1 THEN IntToStr(t[1])
    ELSE IntToStr(t[1]) \o <<".">> \o JoinDots(Tail(t))

\* a < b for tuples of integers, as Python compares tuples
RECURSIVE LexLess(_, _)
LexLess(a, b) ==
    IF b = << >> THEN FALSE
    ELSE IF a = << >> THEN TRUE
    ELSE IF a[1] # b[1] THEN a[1] < b[1]
    ELSE LexLess(Tail(a), Tail(b))

Take(t, n) == SubSeq(t, 1, IF n < Len(t) THEN n ELSE Len(t))

----------------------------------------------------------------------------
(* The reason registry *)

crdb_reasons ==
    ("2-phase commit" :> 22329) @@ ("backend pid" :> 35897)
        @@ ("cancel" :> 41335) @@ ("cast adds tz" :> 51692)
        @@ ("cidr" :> 18846) @@ ("composite" :> 27792) @@ ("copy" :> 41608)
        @@ ("deferrable" :> 48307) @@ ("encoding" :> 35882)
        @@ ("hstore" :> 41284) @@ ("infinity date" :> 41564)
        @@ ("interval style" :> 35807) @@ ("large objects" :> 243)
        @@ ("named cursor" :> 41412) @@ ("nested array" :> 32552)
        @@ ("notify" :> 41522) @@ ("range" :> 41282)
        @@ ("stored procedure" :> 1751)

----------------------------------------------------------------------------
(* The decorators.  A decorator is the record of the call that made it:    *)
(* its factory (kind) and the arguments the wrapper closes over            *)

GateCall(kind, reason, isStr, ver, version) ==
    [kind |-> kind, reason |-> reason, reasonIsStr |-> isStr, ver |-> ver,
     version |-> version]

\* skip_if_crdb("cancel")
CrdbAny == GateCall("skip_if_crdb", "cancel", TRUE, << >>, None)
\* skip_if_crdb("cancel query"): the reason begins with a key of the registry
CrdbNearKey == GateCall("skip_if_crdb", "cancel query", TRUE, << >>, None)
\* skip_if_crdb("slow on crdb", version=">= 20.1")
CrdbFrom201 ==
    GateCall("skip_if_crdb", "slow on crdb", TRUE, << >>,
             Some(<<">", "=", " ", "2", "0", ".", "1">>))
\* skip_if_crdb("copy", version="bogus")
CrdbBogus ==
    GateCall("skip_if_crdb", "copy", TRUE, << >>,
             Some(<<"b", "o", "g", "u", "s">>))
\* skip_if_crdb("copy", version="20.1"): the operator is missing
CrdbNoOp ==
    GateCall("skip_if_crdb", "copy", TRUE, << >>,
             Some(<<"2", "0", ".", "1">>))
\* skip_if_crdb(42): the reason is no string
CrdbBadReason == GateCall("skip_if_crdb", "", FALSE, << >>, None)
\* skip_before_postgres(9, 1), skip_after_postgres(9, 1)
BeforePg91 == GateCall("skip_before_postgres", "", TRUE, <<9, 1>>, None)
AfterPg91 == GateCall("skip_after_postgres", "", TRUE, <<9, 1>>, None)
\* skip_before_python(3), skip_from_python(3)
BeforePy3 == GateCall("skip_before_python", "", TRUE, <<3>>, None)
FromPy3 == GateCall("skip_from_python", "", TRUE, <<3>>, None)
\* skip_copy_if_green
CopyIfGreen ==
    GateCall("skip_if_green", "copy in async mode currently not supported",
             TRUE, << >>, None)
\* skip_if_no_uuid, skip_if_tpc_disabled
NoUuid == GateCall("skip_if_no_uuid", "", TRUE, << >>, None)
TpcDisabled == GateCall("skip_if_tpc_disabled", "", TRUE, << >>, None)

\* the gates that decide on a predicate over the backend or the runtime
PredGateCalls ==
    {CrdbAny, CrdbNearKey, CrdbFrom201, CrdbBogus, CrdbNoOp, CrdbBadReason,
     BeforePg91, AfterPg91, BeforePy3, FromPy3, CopyIfGreen}
\* the gates that probe the server for a capability
CapGateCalls == {NoUuid, TpcDisabled}

\* a factory that parses the version when the decorator is made
FactoryError_validating(call) ==
    IF call.kind = "skip_if_crdb" /\ ~call.reasonIsStr THEN "TypeError"
    ELSE IF call.kind = "skip_if_crdb" /\ call.version # None
            /\ PatternMatch(call.version[1]) = None
    THEN "ValueError:pattern"
    ELSE ""

\* the call of a decorator factory: skip_if_crdb checks its reason, the
\* other factories only close over their arguments.  "" or the exception
FactoryError(call) ==
    IF call.kind = "skip_if_crdb" /\ ~call.reasonIsStr THEN "TypeError"
    ELSE ""

----------------------------------------------------------------------------
(* The backend and the runtime a test process is bound to.  A field of env *)
(* is None until a gate reads it; once read it keeps its value             *)

EnvHandles == {"pg", "crdb20", "crdb19", "crdbdev"}
ServerVersions == {90004, 90100}
PythonVersions == {<<2, 7, 18>>, <<3, 8, 10>>}

Opt(S) == {None} \cup {Some(x) : x \in S}

EnvSpace ==
    [handle : Opt(EnvHandles), server_version : Opt(ServerVersions),
     version_info : Opt(PythonVersions), green : Opt(BOOLEAN)]

EnvUnread ==
    [handle |-> None, server_version |-> None, version_info |-> None,
     green |-> None]

\* what a wrapper reads
Reads(kind) ==
    CASE kind = "skip_if_crdb" -> {"handle"}
      [] kind \in {"skip_before_postgres", "skip_after_postgres"} ->
            {"server_version"}
      [] kind \in {"skip_before_python", "skip_from_python"} ->
            {"version_info"}
      [] kind = "skip_if_green" -> {"green"}
      [] OTHER -> {}

\* env after a wrapper of this kind has read what it reads
Observed(e0, kind) ==
    {e \in EnvSpace :
        \A f \in DOMAIN e0 :
            IF f \in Reads(kind)
            THEN e[f] # None /\ (e0[f] = None \/ e0[f] = e[f])
            ELSE e[f] = e0[f]}

\* what the probe query of a capability gate can come to
QueryOutcomes(kind) ==
    CASE kind = "skip_if_no_uuid" ->
            {"ImportError", "row", "norow", "ProgrammingError",
             "OperationalError"}
      [] kind = "skip_if_tpc_disabled" ->
            {"row:0", "row:5", "norow", "ProgrammingError",
             "OperationalError", "InternalError"}
      [] OTHER -> {"none"}

----------------------------------------------------------------------------
(* The predicates of the wrappers *)

\* ver + (0,) * (3 - len(ver))
PadVer(ver) ==
    ver \o [k \in 1..(IF Len(ver) < 3 THEN 3 - Len(ver) ELSE 0) |-> 0]

\* "%02d" % n
Pad2(n) == IF n < 10 THEN <<"0">> \o IntToStr(n) ELSE IntToStr(n)

\* int("%d%02d%02d" % ver), ver of three items
FormatVer(ver) == ToInt(IntToStr(ver[1]) \o Pad2(ver[2]) \o Pad2(ver[3]))

NoProbe(dflt) == [queried |-> FALSE, default |-> dflt]
NoConn == [use |-> "none", closed |-> FALSE, tx |-> "idle"]

Decision(outcome, msg, err, probe, conn) ==
    [outcome |-> outcome, msg |-> msg, err |-> err, probe |-> probe,
     conn |-> conn]

ProbeConn == [use |-> "new", closed |-> FALSE, tx |-> "idle"]

\* a message that never carries the reference
crdb_skip_message_verbatim(ver, reason) ==
    <<Text("not supported on CockroachDB "), IntToStr(ver), Text(": "),
      Text(reason)>>

\* lines 394-399: the message of the SkipTest raised
crdb_skip_message(ver, reason) ==
    <<Text("not supported on CockroachDB "), IntToStr(ver), Text(": "),
      Text(reason)>>
        \o (IF reason \in DOMAIN crdb_reasons
            THEN <<Text(" (https://github.com/cockroachdb/cockroach/issues/"),
                   IntToStr(crdb_reasons[reason]), Text(")")>>
            ELSE << >>)

\* line 393, second operand: m is what _crdb_match_version gave
skip_if_crdb_matched(reason, ver, m, v) ==
    IF m.err # "" THEN Decision("error", << >>, m.err, v, ProbeConn)
    ELSE IF ~m.ret[1] THEN Decision("run", << >>, "", v, ProbeConn)
    ELSE Decision("skip", crdb_skip_message(ver, reason), "", v, ProbeConn)

\* a gate that matches the version before it looks at what the probe gave
skip_if_crdb_probed_eager(reason, version, v) ==
    IF v.err # "" THEN Decision("error", << >>, v.err, v, ProbeConn)
    ELSE skip_if_crdb_matched(
             reason, IF v.ret[1] = None THEN 0 ELSE v.ret[1][1],
             _crdb_match_version(IF v.ret[1] = None THEN 0 ELSE v.ret[1][1],
                                 version), v)

\* lines 392-393: v is what crdb_version gave
skip_if_crdb_probed(reason, version, v) ==
    IF v.err # "" THEN Decision("error", << >>, v.err, v, ProbeConn)
    ELSE IF v.ret[1] = None THEN Decision("run", << >>, "", v, ProbeConn)
    ELSE skip_if_crdb_matched(
             reason, v.ret[1][1],
             _crdb_match_version(v.ret[1][1], version), v)

\* skip_if_crdb(reason, conn, version) with a connection: lines 391-399
skip_if_crdb(reason, conn, version, dflt) ==
    skip_if_crdb_probed(reason, version, crdb_version(conn, dflt))

skip_before_postgres(ver, server_version, dflt) ==
    LET c == [use |-> "the", closed |-> FALSE, tx |-> "idle"]
    IN IF Len(PadVer(ver)) # 3
       THEN Decision("error", << >>, "TypeError", NoProbe(dflt), c)
       ELSE IF server_version < FormatVer(PadVer(ver))
       THEN Decision("skip", <<Text("skipped because PostgreSQL "),
                               IntToStr(server_version)>>,
                     "", NoProbe(dflt), c)
       ELSE Decision("run", << >>, "", NoProbe(dflt), c)

skip_after_postgres(ver, server_version, dflt) ==
    LET c == [use |-> "the", closed |-> FALSE, tx |-> "idle"]
    IN IF Len(PadVer(ver)) # 3
       THEN Decision("error", << >>, "TypeError", NoProbe(dflt), c)
       ELSE IF server_version >= FormatVer(PadVer(ver))
       THEN Decision("skip", <<Text("skipped because PostgreSQL "),
                               IntToStr(server_version)>>,
                     "", NoProbe(dflt), c)
       ELSE Decision("run", << >>, "", NoProbe(dflt), c)

skip_before_python(ver, version_info, dflt) ==
    IF LexLess(Take(version_info, Len(ver)), ver)
    THEN Decision("skip", <<Text("skipped because Python "),
                            JoinDots(Take(version_info, Len(ver)))>>,
                  "", NoProbe(dflt), NoConn)
    ELSE Decision("run", << >>, "", NoProbe(dflt), NoConn)

skip_from_python(ver, version_info, dflt) ==
    IF ~LexLess(Take(version_info, Len(ver)), ver)
    THEN Decision("skip", <<Text("skipped because Python "),
                            JoinDots(Take(version_info, Len(ver)))>>,
                  "", NoProbe(dflt), NoConn)
    ELSE Decision("run", << >>, "", NoProbe(dflt), NoConn)

skip_if_green(reason, green, dflt) ==
    IF green THEN Decision("skip", <<Text(reason)>>, "", NoProbe(dflt), NoConn)
    ELSE Decision("run", << >>, "", NoProbe(dflt), NoConn)

\* skip_if_no_uuid_: the query runs on self.conn inside try/finally rollback
skip_if_no_uuid(q, dflt) ==
    LET rolledBack == [use |-> "the", closed |-> FALSE, tx |-> "idle"]
    IN CASE q = "ImportError" ->
              Decision("skip",
                       <<Text("uuid not available in this Python version")>>,
                       "", NoProbe(dflt), NoConn)
         [] q = "row" -> Decision("run", << >>, "", NoProbe(dflt), rolledBack)
         [] q = "norow" ->
              Decision("skip",
                       <<Text("uuid type not available on the server")>>,
                       "", NoProbe(dflt), rolledBack)
         [] OTHER -> Decision("error", << >>, q, NoProbe(dflt), rolledBack)

\* the except clause of skip_if_tpc_disabled_ that catches every error
TpcExpected_any(errClass) == TRUE

\* the except clause of skip_if_tpc_disabled_
TpcExpected(errClass) == errClass = "ProgrammingError"

\* skip_if_tpc_disabled_: the query runs on a connection of its own, closed
\* only after the row has been read
skip_if_tpc_disabled(q, dflt) ==
    LET failed == [use |-> "new", closed |-> FALSE, tx |-> "inerror"]
        open == [use |-> "new", closed |-> FALSE, tx |-> "intrans"]
        closed == [use |-> "new", closed |-> TRUE, tx |-> "idle"]
    IN CASE q = "row:5" -> Decision("run", << >>, "", NoProbe(dflt), closed)
         [] q = "row:0" ->
              Decision("skip",
                       <<Text("server not configured for two phase transactions. "),
                         Text("set max_prepared_transactions to > 0 to run the test")>>,
                       "", NoProbe(dflt), closed)
         [] q = "norow" ->
              Decision("error", << >>, "TypeError", NoProbe(dflt), open)
         [] OTHER ->
              IF TpcExpected(q)
              THEN Decision("skip",
                            <<Text("server too old: two phase transactions not supported.")>>,
                            "", NoProbe(dflt), failed)
              ELSE Decision("error", << >>, q, NoProbe(dflt), failed)

\* the decision of wrapper g in the environment e, the probe query (if it
\* makes one) coming to q
GatePredicate(g, e, q, dflt) ==
    CASE g.kind = "skip_if_crdb" ->
            skip_if_crdb(g.reason, e.handle[1], g.version, dflt)
      [] g.kind = "skip_before_postgres" ->
            skip_before_postgres(g.ver, e.server_version[1], dflt)
      [] g.kind = "skip_after_postgres" ->
            skip_after_postgres(g.ver, e.server_version[1], dflt)
      [] g.kind = "skip_before_python" ->
            skip_before_python(g.ver, e.version_info[1], dflt)
      [] g.kind = "skip_from_python" ->
            skip_from_python(g.ver, e.version_info[1], dflt)
      [] g.kind = "skip_if_green" -> skip_if_green(g.reason, e.green[1], dflt)
      [] g.kind = "skip_if_no_uuid" -> skip_if_no_uuid(q, dflt)
      [] g.kind = "skip_if_tpc_disabled" -> skip_if_tpc_disabled(q, dflt)

\* a wrapper that goes on to the wrapped function after reporting a skip
WrapperFlow_fallthrough(decision) ==
    IF decision.outcome = "error" THEN "stop" ELSE "call"

\* what a wrapper does with the decision: return self.skipTest(...) and a
\* raised exception leave the wrapper, else it calls the wrapped function
WrapperFlow(decision) ==
    IF decision.outcome = "run" THEN "call" ELSE "stop"

----------------------------------------------------------------------------
(* The suite: a test class with its attributes *)

AttrNames == {"test_a", "test_b", "helper_c", "latest"}

NameText(n) ==
    CASE n = "test_a" -> <<"t", "e", "s", "t", "_", "a">>
      [] n = "test_b" -> <<"t", "e", "s", "t", "_", "b">>
      [] n = "helper_c" -> <<"h", "e", "l", "p", "e", "r", "_", "c">>
      [] n = "latest" -> <<"l", "a", "t", "e", "s", "t">>

\* 'test' in n
contains_test(n) ==
    \E i \in 1..Len(NameText(n)) :
        StartsWithAt(NameText(n), i, <<"t", "e", "s", "t">>)

\* n.startswith('test')
startswith_test(n) == StartsWithAt(NameText(n), 1, <<"t", "e", "s", "t">>)

\* the decorators applied in the order listed, each around the one before
ApplyDecorators_firstOutermost(stack, decorators) == decorators \o stack

\* for d in decorators: setattr(obj, n, d(getattr(obj, n)))
RECURSIVE ApplyDecorators(_, _)
ApplyDecorators(stack, decorators) ==
    IF decorators = << >> THEN stack
    ELSE ApplyDecorators(<<Head(decorators)>> \o stack, Tail(decorators))

\* the loop of decorate_all_tests over dir(obj)
decorate_all_tests(obj, decorators) ==
    [n \in DOMAIN obj |->
        IF startswith_test(n) THEN ApplyDecorators(obj[n], decorators)
        ELSE obj[n]]

NoReturn == [how |-> "", what |-> << >>]

GateIdle ==
    /\ attrs = [n \in AttrNames |-> << >>]
    /\ decoArgs = << >>
    /\ decoRet = ""
    /\ decoVia = ""
    /\ decoErr = ""
    /\ pc = "class body"
    /\ cur = ""
    /\ depth = 0
    /\ events = << >>
    /\ ret = NoReturn
    /\ env = EnvUnread
    /\ conns = << >>
    /\ theConn = 0

----------------------------------------------------------------------------
(* The threads of the test process that call crdb_version *)

MaxThreads == 2

Threads == 1..MaxThreads

\* a thread that is not in a call: at is the statement it executes next,
\* lst the list its __crdb_version is bound to, sver the status it read,
\* writes the number of appends it has done
ThreadIdle ==
    [at |-> "idle", conn |-> "", lst |-> << >>, sver |-> None, writes |-> 0]

----------------------------------------------------------------------------
(* Idle values of the variables a specification does not use *)

ProbeIdle ==
    /\ crdbDefault = crdb_version_default
    /\ queries = [h \in Handles |-> 0]
    /\ calls = << >>
    /\ threads = [t \in Threads |-> ThreadIdle]

PureIdle ==
    /\ inp = None
    /\ out = None

----------------------------------------------------------------------------
(* The probe on its own: crdb_version called on any handles *)

MaxCalls == 3

InitProbe ==
    /\ ProbeIdle
    /\ PureIdle
    /\ GateIdle

ProbeCall(conn) ==
    /\ Len(calls) < MaxCalls
    /\ LET r == crdb_version(conn, crdbDefault)
       IN /\ crdbDefault' = r.default
          /\ queries' = IF r.queried
                        THEN [queries EXCEPT ![conn] = @ + 1]
                        ELSE queries
          /\ calls' = Append(calls, [conn |-> conn, ret |-> r.ret, err |-> r.err])
    /\ threads' = threads
    /\ UNCHANGED <<pureVars, suiteVars, runVars, pc>>

NextProbe == \E conn \in Handles : ProbeCall(conn)

SpecProbe == InitProbe /\ [][NextProbe]_vars

\* the calls made so far all went to handle h, and resolved
OnlyHandle(h) ==
    /\ calls # << >>
    /\ \A i \in 1..Len(calls) : calls[i].conn = h /\ calls[i].err = ""

\* C1: after any sequence of crdb_version calls on one handle, every call
\* returned the same value and the handle was asked for its status once in
\* total (never more than once; once when the handle can be asked at all)
C1_OneQueryPerHandle ==
    \A h \in Handles :
        OnlyHandle(h) =>
            /\ \A i \in 1..Len(calls) : calls[i].ret = calls[1].ret
            /\ queries[h] <= 1
            /\ HasInfo(h) => queries[h] = 1

\* C2: once a crdb_version call has resolved, every later call returns the
\* value of that call, whatever handle it is given
C2_FirstValueKept ==
    \A i \in 1..Len(calls) : \A j \in 1..Len(calls) :
        (i < j /\ calls[i].err = "") =>
            (calls[j].err = "" /\ calls[j].ret = calls[i].ret)

----------------------------------------------------------------------------
(* The encoding on its own *)

MaxComp == 99

EncMajors == {0, 1, MaxComp - 1, MaxComp}

InitEnc ==
    /\ ProbeIdle
    /\ inp \in {Some([a |-> a, b |-> b, c |-> c]) :
                    a \in EncMajors, b \in 0..MaxComp, c \in 0..MaxComp}
    /\ out = None
    /\ GateIdle

\* encode(a,b,c), encode(a,b,c+1), encode(a,b+1,0), encode(a+1,0,0)
EncodeChain ==
    /\ out = None
    /\ out' = Some(<<encode(inp[1].a, inp[1].b, inp[1].c),
                     encode(inp[1].a, inp[1].b, inp[1].c + 1),
                     encode(inp[1].a, inp[1].b + 1, 0),
                     encode(inp[1].a + 1, 0, 0)>>)
    /\ UNCHANGED <<inp, probeVars, suiteVars, runVars, pc>>

NextEnc == EncodeChain

SpecEnc == InitEnc /\ [][NextEnc]_vars

StrictChain(e) == e[1] < e[2] /\ e[2] < e[3] /\ e[3] < e[4]

\* C7 as claimed: for all a, b, c in [0, 99] the chain encode(a,b,c) <
\* encode(a,b,c+1) < encode(a,b+1,0) < encode(a+1,0,0) is strict
C7_ChainAllComponents ==
    out # None => StrictChain(out[1])

\* C7 as amended: the chain is strict for all a in [0, 99] and all b, c in
\* [0, 98], that is whenever b + 1 and c + 1 are below the weight 100 of the
\* minor component
C7_ChainBelowCarry ==
    (out # None /\ inp[1].b + 1 < MinorWeight /\ inp[1].c + 1 < MinorWeight)
        => StrictChain(out[1])

\* the chain has been computed for the largest b and c of the amended range
C7_Witness ==
    /\ out # None
    /\ inp[1].b + 2 = MinorWeight
    /\ inp[1].c + 2 = MinorWeight
    /\ inp[1].a = MaxComp

----------------------------------------------------------------------------
(* The matcher on its own: a version against 'OP MAJOR[.MINOR[.PATCH]]' *)

MaxSpaces == 1

MatchMajors == {0, 20, 21}
MatchMinors == {0, 1, 12}
MatchPatches == {0, 5, 9}
MatchVersions ==
    {encode(a, b, c) : a \in MatchMajors, b \in MatchMinors, c \in MatchPatches}

\* minor and patch as written in a pattern: both, the minor only, or neither
MatchTails ==
    {<<None, None>>}
        \cup {<<Some(b), None>> : b \in MatchMinors}
        \cup {<<Some(b), Some(c)>> : b \in MatchMinors, c \in MatchPatches}

RECURSIVE Spaces(_)
Spaces(n) == IF n = 0 THEN << >> ELSE <<" ">> \o Spaces(n - 1)

\* the text of the pattern the input i describes
PatternText(i) ==
    OpAlternatives[i.op] \o Spaces(i.spaces) \o IntToStr(i.major)
        \o (IF i.minor = None THEN << >> ELSE <<".">> \o IntToStr(i.minor[1]))
        \o (IF i.patch = None THEN << >> ELSE <<".">> \o IntToStr(i.patch[1]))

InitMatch ==
    /\ ProbeIdle
    /\ inp \in {Some([version |-> v, hasPattern |-> TRUE, op |-> k, spaces |-> n,
                      major |-> a, minor |-> t[1], patch |-> t[2]]) :
                    v \in MatchVersions, k \in 1..Len(OpAlternatives),
                    n \in 0..MaxSpaces, a \in MatchMajors, t \in MatchTails}
               \cup {Some([version |-> v, hasPattern |-> FALSE, op |-> 1,
                           spaces |-> 0, major |-> 0, minor |-> None,
                           patch |-> None]) : v \in MatchVersions}
    /\ out = None
    /\ GateIdle

MatchVersion ==
    /\ out = None
    /\ out' = Some(_crdb_match_version(
                       inp[1].version,
                       IF inp[1].hasPattern THEN Some(PatternText(inp[1]))
                       ELSE None))
    /\ UNCHANGED <<inp, probeVars, suiteVars, runVars, pc>>

NextMatch == MatchVersion

SpecMatch == InitMatch /\ [][NextMatch]_vars

\* the integer the components of the input's pattern stand for
RefOf(i) ==
    i.major * 10000
        + (IF i.minor = None THEN 0 ELSE i.minor[1]) * 100
        + (IF i.patch = None THEN 0 ELSE i.patch[1])

\* v OP ref, OP the k-th of >, >=, <, <=, ==, !=
Compares(k, v, ref) ==
    CASE k = 1 -> v > ref
      [] k = 2 -> v >= ref
      [] k = 3 -> v < ref
      [] k = 4 -> v <= ref
      [] k = 5 -> v = ref
      [] k = 6 -> v # ref

\* C8: _crdb_match_version(v, 'OP MAJOR[.MINOR[.PATCH]]') is the integer
\* comparison v OP (MAJOR*10000 + MINOR*100 + PATCH), a missing MINOR or
\* PATCH counting 0, and is true for the pattern None; so a version matched
\* against the pattern of its own components is true exactly for ==, >=, <=,
\* and '>= 20.1' accepts 200105 and rejects 200009
C8_MatchIsComparison ==
    out # None =>
        LET i == inp[1]
            r == out[1]
        IN /\ r.err = ""
           /\ ~i.hasPattern => r.ret = Some(TRUE)
           /\ i.hasPattern =>
                 /\ r.ret = Some(Compares(i.op, i.version, RefOf(i)))
                 /\ i.version = RefOf(i) => (r.ret[1] <=> i.op \in {2, 4, 5})
                 /\ (i.op = 2 /\ i.major = 20 /\ i.minor = Some(1)
                         /\ i.patch = None) =>
                       /\ i.version = 200105 => r.ret[1]
                       /\ i.version = 200009 => ~r.ret[1]

\* '>= 20.1' has been evaluated against 200009 and rejected it
C8_Witness ==
    /\ out # None
    /\ inp[1].hasPattern
    /\ PatternText(inp[1]) = <<">", "=", " ", "2", "0", ".", "1">>
    /\ inp[1].version = 200009
    /\ out[1].ret = Some(FALSE)

----------------------------------------------------------------------------
(* Decoration, at the time the test module is imported *)

MaxInner == 1
MaxWrappers == 2

\* the decorators already on the methods of the class
Wrapped == {n \in AttrNames : attrs[n] # << >>}
InnerCount == Cardinality(Wrapped)

ImportFails(err) ==
    /\ decoErr' = err
    /\ pc' = "import failed"
    /\ UNCHANGED <<attrs, decoArgs, decoRet, decoVia>>

\* @call above a method n in the class body.  A decorator made by
\* decorate_all_tests (skip_if_crdb's) given a function returns obj(func)
DecorateFunction(n, call) ==
    /\ pc = "class body"
    /\ attrs[n] = << >>
    /\ InnerCount < MaxInner
    /\ IF FactoryError(call) # "" THEN ImportFails(FactoryError(call))
       ELSE /\ attrs' = [attrs EXCEPT ![n] = <<call>> \o @]
            /\ decoRet' = "function"
            /\ decoVia' = "method"
            /\ UNCHANGED <<decoArgs, decoErr, pc>>
    /\ UNCHANGED <<probeVars, pureVars, runVars>>

\* a decorate_all_tests that ends in 'return obj'
Returned_suite(via) == "suite"

\* what the call on a class evaluates to: decorate_all_tests(cls, ...) runs
\* off its end, decorator(cls) ends in 'return func_or_cls'
Returned(via) == IF via = "direct" THEN "None" ELSE "suite"

\* decorate_all_tests(cls, d1, ..., dn) called with the class: the loop
\* replaces the attributes and the call returns None
DecorateSuite(calls_) ==
    /\ pc = "class body"
    /\ LET bad == {i \in 1..Len(calls_) : FactoryError(calls_[i]) # ""}
       IN IF bad # {}
          THEN ImportFails(FactoryError(
                   calls_[CHOOSE i \in bad : \A j \in bad : i <= j]))
          ELSE /\ attrs' = decorate_all_tests(attrs, calls_)
               /\ decoArgs' = calls_
               /\ decoVia' = "direct"
               /\ decoRet' = Returned("direct")
               /\ decoErr' = ""
               /\ pc' = "decorated"
    /\ UNCHANGED <<probeVars, pureVars, runVars>>

\* @skip_if_crdb(...) above the class: decorator(cls) calls
\* decorate_all_tests(cls, obj) and returns cls
ClassDecorator(call) ==
    /\ pc = "class body"
    /\ call.kind = "skip_if_crdb"
    /\ IF FactoryError(call) # "" THEN ImportFails(FactoryError(call))
       ELSE /\ attrs' = decorate_all_tests(attrs, <<call>>)
            /\ decoArgs' = <<call>>
            /\ decoVia' = "decorator"
            /\ decoRet' = Returned("decorator")
            /\ decoErr' = ""
            /\ pc' = "decorated"
    /\ UNCHANGED <<probeVars, pureVars, runVars>>

----------------------------------------------------------------------------
(* The run of one test method *)

NoGate == GateCall("", "", TRUE, << >>, None)

Event(type, at, gate, what, arg) ==
    [type |-> type, at |-> at, gate |-> gate, what |-> what, arg |-> arg]

\* the methods the framework's loader runs
LoaderPicks == {"test_a", "test_b"}

\* what the body of a test can do
BodyOutcomes == {"return", "AssertionError"}

\* the value the body of test n returns
BodyResult(n) == <<Text("result of "), Text(n)>>

\* setUp, then the call of the (wrapped) method
Invoke(n) ==
    /\ pc \in {"class body", "decorated"}
    /\ n \in LoaderPicks
    /\ cur' = n
    /\ depth' = 1
    /\ events' = << >>
    /\ ret' = NoReturn
    /\ conns' = << >>
    /\ theConn' = 0
    /\ pc' = IF attrs[n] = << >> THEN "body" ELSE "pred"
    /\ UNCHANGED <<probeVars, pureVars, suiteVars, env>>

\* self._conns and self._the_conn after a wrapper used a connection:
\* self.connect() appends one, self.conn makes one on first use
ConnsAfter(c, probed) ==
    LET made == [closed |-> c.closed, tx |-> c.tx, probed |-> probed,
                 registered |-> TRUE, wasConn |-> c.use = "the",
                 closes |-> IF c.closed THEN 1 ELSE 0]
    IN CASE c.use = "new" -> <<Append(conns, made), theConn>>
         [] c.use = "the" ->
              IF theConn = 0 THEN <<Append(conns, made), Len(conns) + 1>>
              ELSE <<[conns EXCEPT ![theConn] =
                         [@ EXCEPT !.closed = c.closed, !.tx = c.tx,
                                   !.probed = @ \/ probed]], theConn>>
         [] OTHER -> <<conns, theConn>>

\* the wrapper g at depth has decided p (its probe query, if any, came to
\* q) in the environment e: it skips, raises or calls the function it wraps
Wrapper(g, e, q, p, after) ==
    /\ env' = e
    /\ crdbDefault' = p.probe.default
    /\ queries' = IF p.probe.queried
                  THEN [queries EXCEPT ![e.handle[1]] = @ + 1]
                  ELSE queries
    /\ conns' = after[1]
    /\ theConn' = after[2]
    /\ events' =
         events \o <<Event("pred", depth, g, <<Text(p.outcome)>>, q)>>
             \o (CASE p.outcome = "skip" ->
                        <<Event("skip", depth, g, p.msg, q)>>
                   [] p.outcome = "error" ->
                        <<Event("error", depth, g, <<Text(p.err)>>, q)>>
                   [] OTHER -> << >>)
    /\ IF WrapperFlow(p) = "call"
       THEN /\ depth' = depth + 1
            /\ pc' = IF depth < Len(attrs[cur]) THEN "pred" ELSE "body"
            /\ ret' = ret
       ELSE /\ depth' = depth
            /\ pc' = "done"
            /\ ret' = IF p.outcome = "skip"
                      THEN [how |-> "SkipTest", what |-> p.msg]
                      ELSE [how |-> p.err, what |-> << >>]

Decided(g, e, q, p) ==
    Wrapper(g, e, q, p,
            ConnsAfter(p.conn, g \in CapGateCalls /\ q # "ImportError"))

Evaluate(g) ==
    \E e \in Observed(env, g.kind) : \E q \in QueryOutcomes(g.kind) :
        Decided(g, e, q, GatePredicate(g, e, q, crdbDefault))

\* the wrapper at depth evaluates its predicate and acts on it
PredStep ==
    /\ pc = "pred"
    /\ Evaluate(attrs[cur][depth])
    /\ UNCHANGED <<calls, threads, pureVars, suiteVars, cur>>

\* the test body, called by the innermost wrapper with self; what it
\* returns or raises passes through every wrapper
BodyStep ==
    /\ pc = "body"
    /\ \E o \in BodyOutcomes :
         /\ events' = Append(events,
                             Event("body", 0, NoGate,
                                   IF o = "return" THEN BodyResult(cur)
                                   ELSE <<Text(o)>>,
                                   cur))
         /\ ret' = IF o = "return"
                   THEN [how |-> "return", what |-> BodyResult(cur)]
                   ELSE [how |-> o, what |-> << >>]
    /\ pc' = "done"
    /\ UNCHANGED <<probeVars, pureVars, suiteVars, cur, depth, env, conns,
                   theConn>>

\* 'for conn in self._conns: if not conn.closed: conn.close()'
tearDown(cs) ==
    [i \in DOMAIN cs |->
        IF cs[i].registered /\ ~cs[i].closed
        THEN [cs[i] EXCEPT !.closed = TRUE, !.tx = "idle", !.closes = @ + 1]
        ELSE cs[i]]

\* ConnectingTestCase.tearDown: close the connections of self._conns that
\* are not yet closed
TearDown ==
    /\ pc = "done"
    /\ conns' = tearDown(conns)
    /\ pc' = "end"
    /\ UNCHANGED <<probeVars, pureVars, suiteVars, cur, depth, events, ret,
                   env, theConn>>

CountType(t) == Cardinality({i \in DOMAIN events : events[i].type = t})
\* the events of type t, oldest first
RECURSIVE OfType(_, _)
OfType(evs, t) ==
    IF evs = << >> THEN << >>
    ELSE (IF Head(evs).type = t THEN <<Head(evs)>> ELSE << >>)
             \o OfType(Tail(evs), t)

----------------------------------------------------------------------------
(* Single gates: methods decorated one by one with the predicate gates *)

InitGate ==
    /\ ProbeIdle
    /\ PureIdle
    /\ GateIdle

NextGate ==
    \/ \E n \in AttrNames : \E call \in PredGateCalls : DecorateFunction(n, call)
    \/ \E call \in PredGateCalls : ClassDecorator(call)
    \/ \E n \in AttrNames : Invoke(n)
    \/ PredStep
    \/ BodyStep
    \/ TearDown

SpecGate == InitGate /\ [][NextGate]_vars

\* the pred events whose wrapper decided x ("run", "skip" or "error")
Said(x) ==
    {i \in DOMAIN events :
        events[i].type = "pred" /\ events[i].what = <<Text(x)>>}

BodyEvents == {i \in DOMAIN events : events[i].type = "body"}

\* C5: in every run of a test wrapped by predicate gates the predicates are
\* evaluated before the body starts; if one says skip, exactly one skip is
\* reported and the body is never run; if all say run, the body runs exactly
\* once, with the test instance, and what it returns or raises is the
\* outcome of the call
C5_PredicateThenSkipOrBody ==
    /\ \A i \in BodyEvents :
          /\ \A j \in DOMAIN events : events[j].type = "pred" => j < i
          /\ Cardinality(Said("run")) = Len(attrs[cur])
          /\ Said("skip") = {}
    /\ pc \in {"done", "end"} =>
          /\ Said("skip") # {} =>
                /\ CountType("skip") = 1
                /\ CountType("body") = 0
                /\ ret.how = "SkipTest"
          /\ Cardinality(Said("run")) = Len(attrs[cur]) =>
                /\ CountType("skip") = 0
                /\ CountType("body") = 1
                /\ \A i \in BodyEvents :
                      /\ events[i].arg = cur
                      /\ \/ ret.how = "return" /\ ret.what = events[i].what
                         \/ ret.how # "return" /\ events[i].what = <<Text(ret.how)>>

\* a test behind skip_after_postgres(9, 1) has been skipped
C5_Witness ==
    /\ pc = "done"
    /\ attrs[cur] = <<AfterPg91>>
    /\ CountType("skip") = 1
    /\ CountType("body") = 0
    /\ ret.how = "SkipTest"

\* the skip_if_crdb calls whose version is not 'OP MAJOR[.MINOR[.PATCH]]'
MalformedCalls == {CrdbBogus, CrdbNoOp}

\* C4 as claimed: a malformed version given to skip_if_crdb fails at the
\* decoration step, so no wrapper holding a malformed version is ever put on
\* a test
C4_MalformedFailsAtDecoration ==
    \A n \in AttrNames : \A i \in DOMAIN attrs[n] :
        attrs[n][i] \notin MalformedCalls

\* C4 as amended: the decoration step never raises the malformed-spec
\* error; it is raised when a gated test is run and the probe gives a
\* CockroachDB version, before the body and without a skip; when the probe
\* gives None the version is not parsed and the next wrapper or the body runs
C4_MalformedFailsAtRunTime ==
    /\ decoErr # "ValueError:pattern"
    /\ (pc \in {"body", "done", "end"} /\ attrs[cur] # << >>
            /\ attrs[cur][1] \in MalformedCalls) =>
          /\ events[1].type = "pred"
          /\ env.handle[1] \in {"crdb20", "crdb19"} =>
                /\ events[1].what = <<Text("error")>>
                /\ ret.how = "ValueError:pattern"
                /\ CountType("body") = 0
                /\ CountType("skip") = 0
          /\ env.handle[1] = "pg" =>
                /\ events[1].what = <<Text("run")>>
                /\ Len(attrs[cur]) = 1 => (pc = "body" \/ CountType("body") = 1)
          /\ env.handle[1] = "crdbdev" => ret.how = "ValueError:banner"

\* a test behind skip_if_crdb("copy", version="bogus") was run against
\* CockroachDB and ended in the malformed-spec error
C4_Witness ==
    /\ pc = "done"
    /\ attrs[cur] = <<CrdbBogus>>
    /\ env.handle \in {Some("crdb20"), Some("crdb19")}
    /\ ret.how = "ValueError:pattern"

----------------------------------------------------------------------------
(* Suites: decorate_all_tests applied to a class whose methods may already *)
(* carry a decorator                                                       *)

SuiteGateCalls == {CrdbAny, CrdbBogus, BeforePg91, CopyIfGreen}

\* the argument lists of a decorate_all_tests call
DecoratorLists == UNION {[1..k -> SuiteGateCalls] : k \in 1..MaxWrappers}

InitSuite ==
    /\ ProbeIdle
    /\ PureIdle
    /\ attrs \in [AttrNames -> {<< >>, <<CopyIfGreen>>}]
    /\ decoArgs = << >>
    /\ decoRet = ""
    /\ decoVia = ""
    /\ decoErr = ""
    /\ pc = "class body"
    /\ cur = ""
    /\ depth = 0
    /\ events = << >>
    /\ ret = NoReturn
    /\ env = EnvUnread
    /\ conns = << >>
    /\ theConn = 0

NextSuite ==
    \/ \E ds \in DecoratorLists : DecorateSuite(ds)
    \/ \E call \in SuiteGateCalls : ClassDecorator(call)
    \/ \E n \in AttrNames : Invoke(n)
    \/ PredStep
    \/ BodyStep
    \/ TearDown

SpecSuite == InitSuite /\ [][NextSuite]_vars

\* the wrappers whose predicates were evaluated in this run, oldest first
Evaluated == OfType(events, "pred")

Least2(a, b) == IF a < b THEN a ELSE b

\* a test of a suite decorated by one decorate_all_tests call is running
SuiteRun == decoArgs # << >> /\ pc \in {"pred", "body", "done", "end"}

\* C3 as claimed: the first decorator listed is the outermost, its predicate
\* is evaluated first, the second one's next
C3_FirstListedOutermost ==
    SuiteRun =>
        \A k \in 1..Least2(Len(Evaluated), Len(decoArgs)) :
            Evaluated[k].gate = decoArgs[k]

\* C3 as amended: the last decorator listed is the outermost: in every run
\* wn's predicate is evaluated first, then w(n-1)'s, ..., w1's, then those
\* of the decorators the method already had, and the body last; the skip
\* reported is that of the first of them, in this order, that says skip
C3_LastListedOutermost ==
    SuiteRun =>
        /\ \A k \in 1..Least2(Len(Evaluated), Len(decoArgs)) :
              Evaluated[k].gate = decoArgs[Len(decoArgs) - k + 1]
        /\ BodyEvents # {} => Len(Evaluated) >= Len(decoArgs)
        /\ \A i \in DOMAIN events :
              events[i].type = "skip" =>
                 /\ events[i].gate = Evaluated[Len(Evaluated)].gate
                 /\ Cardinality(Said("run")) = Len(Evaluated) - 1

\* decorate_all_tests(cls, skip_before_postgres(9, 1), skip_copy_if_green):
\* a test was skipped by the green gate, the server version never read
C3_Witness ==
    /\ pc = "done"
    /\ decoArgs = <<BeforePg91, CopyIfGreen>>
    /\ Len(Evaluated) = 1
    /\ CountType("skip") = 1
    /\ env.server_version = None
    /\ ret = [how |-> "SkipTest", what |-> <<Text(CopyIfGreen.reason)>>]

\* the name begins with the four letters t, e, s, t
TestNamed(n) ==
    /\ Len(NameText(n)) >= 4
    /\ SubSeq(NameText(n), 1, 4) = <<"t", "e", "s", "t">>

\* C9: a decorate_all_tests call on a suite replaces the attributes whose
\* name begins with 'test' by their wrapped versions (the listed decorators
\* around what the attribute was) and leaves every other attribute as it was
C9_OnlyTestAttrsWrapped ==
    [][(pc = "class body" /\ pc' = "decorated") =>
          \A n \in AttrNames :
              IF TestNamed(n)
              THEN /\ attrs'[n] # attrs[n]
                   /\ Len(attrs'[n]) = Len(attrs[n]) + Len(decoArgs')
                   /\ SubSeq(attrs'[n], Len(decoArgs') + 1, Len(attrs'[n]))
                         = attrs[n]
                   /\ \A k \in 1..Len(decoArgs') :
                         \E j \in 1..Len(decoArgs') :
                             attrs'[n][j] = decoArgs'[k]
              ELSE attrs'[n] = attrs[n]]_vars

\* a suite whose test_b and helper_c carried a decorator has been decorated:
\* test_a and test_b are wrapped, helper_c and latest are as before
C9_Witness ==
    /\ pc = "decorated"
    /\ decoRet = "None"
    /\ attrs["test_a"] = <<BeforePg91>>
    /\ attrs["test_b"] = <<BeforePg91, CopyIfGreen>>
    /\ attrs["helper_c"] = <<CopyIfGreen>>
    /\ attrs["latest"] = << >>

----------------------------------------------------------------------------
(* Capability gates: methods decorated with skip_if_no_uuid and            *)
(* skip_if_tpc_disabled                                                    *)

InitCap ==
    /\ ProbeIdle
    /\ PureIdle
    /\ GateIdle

NextCap ==
    \/ \E n \in AttrNames : \E call \in CapGateCalls : DecorateFunction(n, call)
    \/ \E n \in AttrNames : Invoke(n)
    \/ PredStep
    \/ BodyStep
    \/ TearDown

SpecCap == InitCap /\ [][NextCap]_vars

\* C6: whenever a capability gate has run its probe query, the transaction
\* state of the probing connection has been released (rolled back, or the
\* connection closed) by the time the body starts, the skip is reported or
\* the error propagates
C6_ProbeStateReleased ==
    \A i \in DOMAIN conns :
        conns[i].probed => (conns[i].closed \/ conns[i].tx = "idle")

TpcTooOld == <<Text("server too old: two phase transactions not supported.")>>

\* C10: in skip_if_tpc_disabled a probe query failing with ProgrammingError
\* gives a skip with the gate's reason and the body is not run; a probe
\* query failing with another error class is no skip: that error is the
\* outcome of the test and the body is not run
C10_OnlyExpectedErrorSkips ==
    \A i \in DOMAIN events :
        (events[i].type = "pred" /\ events[i].gate = TpcDisabled) =>
            /\ events[i].arg = "ProgrammingError" =>
                  /\ events[i + 1].type = "skip"
                  /\ events[i + 1].what = TpcTooOld
                  /\ ret = [how |-> "SkipTest", what |-> TpcTooOld]
                  /\ CountType("body") = 0
                  /\ pc \in {"done", "end"}
            /\ events[i].arg \in {"OperationalError", "InternalError"} =>
                  /\ events[i + 1].type = "error"
                  /\ ret = [how |-> events[i].arg, what |-> << >>]
                  /\ CountType("skip") = 0
                  /\ CountType("body") = 0
                  /\ pc \in {"done", "end"}

\* the probe of skip_if_tpc_disabled failed with OperationalError and the
\* test ended in that error
C10_Witness ==
    /\ pc = "done"
    /\ attrs[cur] = <<TpcDisabled>>
    /\ events[1].arg = "OperationalError"
    /\ ret.how = "OperationalError"

----------------------------------------------------------------------------
(* The superuser gate: skip_if_no_superuser runs the body and looks at the *)
(* error it raises                                                         *)

NoSuperuser == GateCall("skip_if_no_superuser", "", TRUE, << >>, None)

\* errorcodes.INSUFFICIENT_PRIVILEGE and two other values of e.pgcode
INSUFFICIENT_PRIVILEGE == "42501"
SYNTAX_ERROR == "42601"
NoPgcode == "None"

Raised(class, pgcode) == [how |-> class, what |-> <<Text(pgcode)>>]

\* what f(self) can do under skip_if_no_superuser_: return, or raise an
\* error of some class carrying some pgcode
SuperBodyOutcomes ==
    {[how |-> "return", what |-> << >>],
     Raised("ProgrammingError", INSUFFICIENT_PRIVILEGE),
     Raised("ProgrammingError", SYNTAX_ERROR),
     Raised("ProgrammingError", NoPgcode),
     Raised("OperationalError", INSUFFICIENT_PRIVILEGE),
     Raised("AssertionError", NoPgcode)}

NotSuperuser ==
    [how |-> "SkipTest", what |-> <<Text("skipped because not superuser")>>]

\* an except clause that takes every ProgrammingError for the skip signal
skip_if_no_superuser_anycode(r) ==
    IF r.how = "ProgrammingError" THEN NotSuperuser ELSE r

\* skip_if_no_superuser_ after f(self) came to r: the value is returned, a
\* ProgrammingError with the privilege code becomes a skip, anything else
\* is raised again
skip_if_no_superuser(r) ==
    IF r.how = "return" THEN r
    ELSE IF r.how = "ProgrammingError"
    THEN IF r.what = <<Text(INSUFFICIENT_PRIVILEGE)>> THEN NotSuperuser
         ELSE r
    ELSE r

\* skip_if_no_superuser_ enters its try block and calls f(self)
SuperCall ==
    /\ pc = "pred"
    /\ attrs[cur][depth] = NoSuperuser
    /\ depth' = depth + 1
    /\ pc' = "body"
    /\ UNCHANGED <<probeVars, pureVars, suiteVars, cur, events, ret, env,
                   conns, theConn>>

\* the test body; under the wrapper its outcome goes to the try block
SuperBodyStep ==
    /\ pc = "body"
    /\ \E o \in SuperBodyOutcomes :
         /\ events' = Append(events,
                             Event("body", 0, NoGate,
                                   IF o.how = "return" THEN BodyResult(cur)
                                   ELSE <<Text(o.how)>> \o o.what,
                                   cur))
         /\ ret' = IF o.how = "return"
                   THEN [how |-> "return", what |-> BodyResult(cur)]
                   ELSE o
    /\ pc' = IF attrs[cur] = << >> THEN "done" ELSE "except"
    /\ UNCHANGED <<probeVars, pureVars, suiteVars, cur, depth, env, conns,
                   theConn>>

\* the wrapper returns the value, calls self.skipTest or raises again
SuperHandle ==
    /\ pc = "except"
    /\ ret' = skip_if_no_superuser(ret)
    /\ events' = IF skip_if_no_superuser(ret).how = "SkipTest"
                 THEN Append(events,
                             Event("skip", 1, NoSuperuser,
                                   skip_if_no_superuser(ret).what, ""))
                 ELSE events
    /\ depth' = 1
    /\ pc' = "done"
    /\ UNCHANGED <<probeVars, pureVars, suiteVars, cur, env, conns, theConn>>

NextSuper ==
    \/ \E n \in AttrNames : DecorateFunction(n, NoSuperuser)
    \/ \E n \in AttrNames : Invoke(n)
    \/ SuperCall
    \/ SuperBodyStep
    \/ SuperHandle
    \/ TearDown

SpecSuper == InitGate /\ [][NextSuper]_vars

\* the error the body raised, as the body step recorded it
BodyRaised(class, pgcode) ==
    \E i \in BodyEvents : events[i].what = <<Text(class), Text(pgcode)>>

\* C11: a test wrapped by skip_if_no_superuser has its body run exactly
\* once and before any skip; a ProgrammingError with the code
\* INSUFFICIENT_PRIVILEGE gives one skip and is not the outcome; any other
\* error is the outcome, unchanged, with no skip; a value returned by the
\* body is returned
C11_BodyFirstThenPrivilegeSkip ==
    (pc \in {"done", "end"} /\ attrs[cur] = <<NoSuperuser>>) =>
        /\ CountType("body") = 1
        /\ \A i \in DOMAIN events : events[i].type = "skip" =>
              \A j \in BodyEvents : j < i
        /\ IF BodyRaised("ProgrammingError", INSUFFICIENT_PRIVILEGE)
           THEN /\ CountType("skip") = 1
                /\ ret.how = "SkipTest"
           ELSE /\ CountType("skip") = 0
                /\ \A i \in BodyEvents :
                      \/ ret = [how |-> "return", what |-> events[i].what]
                      \/ /\ ret.how \notin {"return", "SkipTest"}
                         /\ events[i].what = <<Text(ret.how)>> \o ret.what

\* the body raised OperationalError with the privilege code and the test
\* ended in that error, not in a skip
C11_Witness ==
    /\ pc = "done"
    /\ attrs[cur] = <<NoSuperuser>>
    /\ BodyRaised("OperationalError", INSUFFICIENT_PRIVILEGE)
    /\ ret = Raised("OperationalError", INSUFFICIENT_PRIVILEGE)
    /\ CountType("skip") = 0

----------------------------------------------------------------------------
(* skip_if_crdb: the reason reported and the backends it lets through *)

\* the skips reported by skip_if_crdb gates in this run
CrdbSkips ==
    {i \in DOMAIN events :
        events[i].type = "skip" /\ events[i].gate.kind = "skip_if_crdb"}

\* C12: a skip reported by skip_if_crdb carries the supplied reason; the
\* tracking reference follows it exactly when the reason is a key of
\* crdb_reasons, and is then that key's identifier; for any other reason
\* the message ends with the reason as supplied
C12_ReferenceIffRegistryKey ==
    \A i \in CrdbSkips :
        LET m == events[i].what
            r == events[i].gate.reason
        IN /\ Len(m) >= 4
           /\ m[1] = Text("not supported on CockroachDB ")
           /\ m[4] = Text(r)
           /\ ret.what = m
           /\ IF \E k \in DOMAIN crdb_reasons : k = r
              THEN /\ Len(m) = 7
                   /\ m[6] = IntToStr(crdb_reasons[r])
              ELSE Len(m) = 4

\* skip_if_crdb("cancel") skipped a test with the reference 41335
C12_Witness ==
    /\ pc = "done"
    /\ attrs[cur] = <<CrdbAny>>
    /\ \E i \in CrdbSkips :
          /\ Len(events[i].what) = 7
          /\ events[i].what[6] = <<"4", "1", "3", "3", "5">>

\* the skip_if_crdb wrappers evaluated against a backend that is not
\* CockroachDB
AbsentProbes ==
    {i \in DOMAIN events :
        /\ events[i].type = "pred"
        /\ events[i].gate.kind = "skip_if_crdb"
        /\ env.handle = Some("pg")}

\* C17: when the probe gives None, a skip_if_crdb wrapper lets the call
\* through whatever its reason and version are: no skip and no error of
\* the version string are reported, and a test behind this wrapper alone
\* runs its body once
C17_AbsentBackendRuns ==
    \A i \in AbsentProbes :
        /\ events[i].what = <<Text("run")>>
        /\ \A j \in DOMAIN events :
              events[j].type \in {"skip", "error"} => events[j].at # events[i].at
        /\ (pc \in {"done", "end"} /\ Len(attrs[cur]) = 1) =>
              /\ CountType("body") = 1
              /\ CountType("skip") = 0
              /\ ret.how \in BodyOutcomes

\* skip_if_crdb("copy", version="20.1"), a version without operator, was
\* run against PostgreSQL and the body returned
C17_Witness ==
    /\ pc = "done"
    /\ attrs[cur] = <<CrdbNoOp>>
    /\ AbsentProbes # {}
    /\ CountType("body") = 1
    /\ ret.how = "return"

----------------------------------------------------------------------------
(* The server version gates on their own: skip_before_postgres and        *)
(* skip_after_postgres made with the same arguments, evaluated against    *)
(* the same server                                                         *)

MaxVerComp == 100

InitVer ==
    /\ ProbeIdle
    /\ inp \in {Some([ver |-> v, server_version |-> s]) :
                   v \in UNION {[1..k -> {0, 9, MaxVerComp - 1, MaxVerComp}] :
                                   k \in 1..3},
                   s \in {90004, 90100, 90200, 99 * MajorWeight}}
    /\ out = None
    /\ GateIdle

\* the two wrappers decide
VerDecide ==
    /\ out = None
    /\ out' = Some([before |->
                        skip_before_postgres(inp[1].ver,
                                             inp[1].server_version,
                                             crdbDefault).outcome,
                    after |->
                        skip_after_postgres(inp[1].ver,
                                            inp[1].server_version,
                                            crdbDefault).outcome])
    /\ UNCHANGED <<inp, probeVars, suiteVars, runVars, pc>>

SpecVer == InitVer /\ [][VerDecide]_vars

\* the component i of the declared version, 0 when it is not given
Declared(i) == IF i <= Len(inp[1].ver) THEN inp[1].ver[i] ELSE 0

\* C13: for every declared version and every server version s,
\* skip_before_postgres skips exactly when s < major*10000 + minor*100 +
\* patch, skip_after_postgres exactly when s >= that value, and exactly one
\* of the two runs the body
C13_GatesUseEncoder ==
    out # None =>
        LET t == encode(Declared(1), Declared(2), Declared(3))
            s == inp[1].server_version
        IN /\ out[1].before = "skip" <=> s < t
           /\ out[1].after = "skip" <=> s >= t
           /\ out[1].before = "run" <=> out[1].after # "run"

----------------------------------------------------------------------------
(* What a decoration of a suite returns *)

\* C15 as claimed: decorate_all_tests applied to a suite returns the suite,
\* called directly or through the decorator made from a wrapper function
C15_SuiteReturned ==
    decoVia \in {"direct", "decorator"} => decoRet = "suite"

\* C15 as amended: the decorator made from a wrapper function returns the
\* suite it was given; decorate_all_tests called directly with the suite
\* returns None; both have replaced the test attributes of the suite
C15_SuiteReturnedByDecoratorOnly ==
    /\ decoVia = "decorator" => decoRet = "suite"
    /\ decoVia = "direct" => decoRet = "None"
    /\ decoVia \in {"direct", "decorator"} =>
          \A n \in AttrNames : TestNamed(n) => attrs[n] # << >>

\* decorate_all_tests(cls, skip_copy_if_green) has been called and gave None
C15_Witness ==
    /\ pc = "decorated"
    /\ decoVia = "direct"
    /\ decoArgs = <<CopyIfGreen>>
    /\ decoRet = "None"

----------------------------------------------------------------------------
(* ConnectingTestCase: the connections a test makes and uses between     *)
(* setUp and tearDown                                                      *)

MaxConns == 3

\* a connection just made by psycopg2.connect(dsn)
NewConn(registered, wasConn) ==
    [closed |-> FALSE, tx |-> "idle", probed |-> FALSE,
     registered |-> registered, wasConn |-> wasConn, closes |-> 0]

\* self.connect(): the new connection is appended to self._conns
Connect ==
    /\ pc = "body"
    /\ Len(conns) < MaxConns
    /\ conns' = Append(conns, NewConn(TRUE, FALSE))
    /\ UNCHANGED <<probeVars, pureVars, suiteVars, pc, cur, depth, events,
                   ret, env, theConn>>

\* the first read of self.conn: _get_conn makes it with self.connect()
GetConn ==
    /\ pc = "body"
    /\ theConn = 0
    /\ Len(conns) < MaxConns
    /\ conns' = Append(conns, NewConn(TRUE, TRUE))
    /\ theConn' = Len(conns) + 1
    /\ UNCHANGED <<probeVars, pureVars, suiteVars, pc, cur, depth, events,
                   ret, env>>

\* self.conn = c: _set_conn stores c, which is a connection the test has
\* already (c in DOMAIN conns) or one it makes itself with
\* psycopg2.connect(dsn) (c = 0)
SetConn(c) ==
    /\ pc = "body"
    /\ IF c = 0
       THEN /\ Len(conns) < MaxConns
            /\ conns' = Append(conns, NewConn(FALSE, TRUE))
            /\ theConn' = Len(conns) + 1
       ELSE /\ c \in DOMAIN conns
            /\ c # theConn
            /\ conns' = [conns EXCEPT ![c].wasConn = TRUE]
            /\ theConn' = c
    /\ UNCHANGED <<probeVars, pureVars, suiteVars, pc, cur, depth, events,
                   ret, env>>

\* the test closes one of its connections itself
CloseConn(c) ==
    /\ pc = "body"
    /\ c \in DOMAIN conns
    /\ ~conns[c].closed
    /\ conns' = [conns EXCEPT ![c].closed = TRUE, ![c].closes = @ + 1]
    /\ UNCHANGED <<probeVars, pureVars, suiteVars, pc, cur, depth, events,
                   ret, env, theConn>>

NextConn ==
    \/ \E n \in AttrNames : Invoke(n)
    \/ Connect
    \/ GetConn
    \/ \E c \in 0..MaxConns : SetConn(c)
    \/ \E c \in 1..MaxConns : CloseConn(c)
    \/ BodyStep
    \/ TearDown

SpecConn == InitGate /\ [][NextConn]_vars

\* C14: after tearDown every connection that was available as self.conn
\* or was made by self.connect() is closed, and no connection has had
\* close() called on it when it was already closed
C14_AllClosedOnce ==
    /\ pc = "end" =>
          \A i \in DOMAIN conns :
              (conns[i].registered \/ conns[i].wasConn) => conns[i].closed
    /\ \A i \in DOMAIN conns : conns[i].closes <= 1

----------------------------------------------------------------------------
(* The probe on handles whose status has no banner *)

\* the handles whose crdb_version status is present and has no
\* v<digits>.<digits>.<digits> at a word boundary: "rev20.1.3", "v20.1-dev"
NoBannerHandles == {"crdbrev", "crdbdev"}

\* C16: a crdb_version call on a handle whose status is present but has no
\* banner raises the banner error and returns nothing; it leaves the
\* object bound to the default argument as it was, unpopulated, and a later
\* call on that handle raises the same error again
C16_UnparsableBannerRaises ==
    /\ \A i \in 1..Len(calls) :
          calls[i].conn \in NoBannerHandles =>
              /\ calls[i].err = "ValueError:banner"
              /\ calls[i].ret = None
    /\ (\E i \in 1..Len(calls) : calls[i].conn \in NoBannerHandles) =>
          /\ crdbDefault = crdb_version_default
          /\ ~Truthy(crdbDefault)

\* a call on a CockroachDB handle gave a version, then two calls on the
\* handle with the status "v20.1-dev" both raised
C16_Witness ==
    /\ Len(calls) = 3
    /\ calls[1].conn = "crdb20" /\ calls[1].err = ""
    /\ calls[2].conn = "crdbdev" /\ calls[2].err = "ValueError:banner"
    /\ calls[3].conn = "crdbdev" /\ calls[3].err = "ValueError:banner"

----------------------------------------------------------------------------
(* crdb_version called from several threads of one process, on handles of  *)
(* one backend; a step is one statement group of the function             *)

Active == {t \in Threads : threads[t].at # "idle"}

\* thread t calls crdb_version(conn): line 352 binds __crdb_version to the
\* default's list if it is populated, else to a new list; lines 354-355
\* return from a populated list
Begin(t, conn) ==
    /\ threads[t].at = "idle"
    /\ Len(calls) + Cardinality(Active) < MaxCalls
    /\ \A u \in Active : threads[u].conn = conn
    /\ \A i \in 1..Len(calls) : calls[i].conn = conn
    /\ threads' =
         [threads EXCEPT ![t] =
             [@ EXCEPT !.conn = conn,
                       !.lst = IF Truthy(crdbDefault)
                               THEN crdbDefault.items ELSE << >>,
                       !.sver = None,
                       !.at = IF Truthy(crdbDefault) THEN "return"
                              ELSE "query"]]
    /\ UNCHANGED <<crdbDefault, queries, calls, pureVars, suiteVars,
                   runVars, pc>>

\* lines 359-362: the thread asks the handle for its status
Query(t) ==
    /\ threads[t].at = "query"
    /\ threads' =
         [threads EXCEPT ![t] =
             [@ EXCEPT !.sver = IF HasInfo(threads[t].conn)
                                THEN StatusString(threads[t].conn)
                                ELSE None,
                       !.at = "store"]]
    /\ queries' = IF HasInfo(threads[t].conn)
                  THEN [queries EXCEPT ![threads[t].conn] = @ + 1]
                  ELSE queries
    /\ UNCHANGED <<crdbDefault, calls, pureVars, suiteVars, runVars, pc>>

\* lines 364-373: the thread appends None or the version to its list, or
\* raises; the list is its own, the default argument is not touched
Store(t) ==
    /\ threads[t].at = "store"
    /\ LET r == crdb_version_resolve(threads[t].conn, threads[t].sver,
                                     crdbDefault)
       IN IF r.err # ""
          THEN /\ calls' = Append(calls, [conn |-> threads[t].conn,
                                          ret |-> None, err |-> r.err])
               /\ threads' = [threads EXCEPT ![t] =
                                 [ThreadIdle EXCEPT
                                     !.writes = threads[t].writes]]
          ELSE /\ calls' = calls
               /\ threads' = [threads EXCEPT ![t] =
                                 [@ EXCEPT !.lst = Append(@, r.ret[1]),
                                           !.writes = @ + 1,
                                           !.at = "return"]]
    /\ UNCHANGED <<crdbDefault, queries, pureVars, suiteVars, runVars, pc>>

\* line 375 (or 355): return __crdb_version[0]
Return(t) ==
    /\ threads[t].at = "return"
    /\ calls' = Append(calls, [conn |-> threads[t].conn,
                               ret |-> Some(threads[t].lst[1]),
                               err |-> ""])
    /\ threads' = [threads EXCEPT ![t] =
                      [ThreadIdle EXCEPT !.writes = threads[t].writes]]
    /\ UNCHANGED <<crdbDefault, queries, pureVars, suiteVars, runVars, pc>>

NextThreads ==
    \/ \E t \in Threads : \E conn \in Handles : Begin(t, conn)
    \/ \E t \in Threads : Query(t)
    \/ \E t \in Threads : Store(t)
    \/ \E t \in Threads : Return(t)

SpecThreads == InitProbe /\ [][NextThreads]_vars

\* the appends done so far by the threads 1..n
RECURSIVE Appends(_)
Appends(n) == IF n = 0 THEN 0 ELSE threads[n].writes + Appends(n - 1)

\* C18: under any interleaving of crdb_version calls made by the threads
\* on handles of one backend, the cache is written at most once (one
\* append in all, the later calls only read), a thread that returns reads
\* a list holding exactly one entry, and all calls return the same value
C18_CacheWrittenOnce ==
    /\ Appends(MaxThreads) <= 1
    /\ \A t \in Threads : threads[t].at = "return" => Len(threads[t].lst) = 1
    /\ \A i \in 1..Len(calls) : \A j \in 1..Len(calls) :
          calls[i].ret = calls[j].ret

====
